---- MODULE Spec2Model ----
(***************************************************************************)
(* Model of the EventAI API (src/main.py): a JSON file of user records,    *)
(* the interest matcher find_top_3_interest_matches, and the HTTP handlers *)
(* GET /, GET /match, GET /users, GET /user and PUT /users/{user_id}.      *)
(***************************************************************************)
EXTENDS Integers, Sequences, FiniteSets, Bags, TLC

\* store: users.json; req: the request being served; out: the outcome of the
\* matcher call made while serving it; resp: the response sent;
\* modelLoads: how many times SentenceTransformer(...) has been constructed
VARIABLES store, req, out, resp, modelLoads

vars == <<store, req, out, resp, modelLoads>>

(***************************************************************************)
(* Bounds of the model.                                                    *)
(***************************************************************************)
\* longest users.json handed to the matcher
MaxRecords == 5
\* longest users.json served by the HTTP handlers
MaxUsers == 2
\* SentenceTransformer constructions counted before GET /match is cut off
MaxLoads == 2

(***************************************************************************)
(* Program constants.                                                      *)
(***************************************************************************)
\* threshold: float = 0.6, kept as the fraction ThresholdNum / ThresholdDen
ThresholdNum == 3
ThresholdDen == 5
\* round(similarity * 100, 2): a score is kept as an integer number of 0.01
ScoreScale == 10000
\* the slice [:3]
TopN == 3

(***************************************************************************)
(* JSON values.  A value is null, a string or a list of strings; a JSON    *)
(* object (a Python dict) is a function from its keys to values.           *)
(***************************************************************************)
JNull == [t |-> "null", s |-> "", l |-> <<>>]
JStr(x) == [t |-> "str", s |-> x, l |-> <<>>]
JList(x) == [t |-> "list", s |-> "", l |-> x]

\* Python truthiness: None, "" and [] are falsy
Truthy(v) == (v.t = "str" /\ v.s # "") \/ (v.t = "list" /\ v.l # <<>>)

\* dict.get(key, default)
Get(d, key, default) == IF key \in DOMAIN d THEN d[key] ELSE default

\* {**a, **b}
Merge(a, b) ==
    [k \in (DOMAIN a) \cup (DOMAIN b) |-> IF k \in DOMAIN b THEN b[k] ELSE a[k]]

EmptyDict == [k \in {} |-> JNull]

\* the fields of UserUpdate
UserUpdate == {"full_name", "email", "job_title", "company", "interests"}

(***************************************************************************)
(* The embedding model.  all-MiniLM-L6-v2 is outside the repository; each  *)
(* interest string is given a fixed integer vector, so that cosines are    *)
(* exact fractions: cos(chess, board games) is exactly 3/5.                *)
(***************************************************************************)
Encode(s) ==
    CASE s = "chess" -> <<5, 0, 0>>
      [] s = "board games" -> <<3, 0, 4>>
      [] s = "hiking" -> <<0, 5, 0>>
      [] s = "trekking" -> <<0, 4, 3>>
      [] OTHER -> <<0, 0, -5>>

Dot(a, b) == a[1] * b[1] + a[2] * b[2] + a[3] * b[3]

VecAdd(a, b) == <<a[1] + b[1], a[2] + b[2], a[3] + b[3]>>

RECURSIVE SumEmbeddings(_)
SumEmbeddings(l) ==
    IF l = <<>> THEN <<0, 0, 0>> ELSE VecAdd(Encode(Head(l)), SumEmbeddings(Tail(l)))

\* p/q <= r/s for naturals p, r and positive q, s, without forming p*s or r*q
RECURSIVE FracLeq(_, _, _, _)
FracLeq(p, q, r, s) ==
    LET a == p \div q
        b == r \div s
        p2 == p % q
        r2 == r % s
    IN  IF a # b THEN a < b
        ELSE IF p2 = 0 THEN TRUE
        ELSE IF r2 = 0 THEN FALSE
        ELSE FracLeq(s, r2, q, p2)

\* the largest k in lo..hi with (2k-1)/(2*ScoreScale) <= m/sqrt(n), by bisection
RECURSIVE RoundSearch(_, _, _, _)
RoundSearch(lo, hi, m, n) ==
    IF lo = hi THEN lo
    ELSE LET mid == (lo + hi + 1) \div 2
         IN  IF FracLeq((2 * mid - 1) * (2 * mid - 1), m * m,
                        4 * ScoreScale * ScoreScale, n)
             THEN RoundSearch(mid, hi, m, n)
             ELSE RoundSearch(lo, mid - 1, m, n)

\* round(cos(a, b) * 100, 2) in units of 0.01; a zero vector has cosine 0
RoundedCos(a, b) ==
    LET d == Dot(a, b)
        n == Dot(a, a) * Dot(b, b)
        m == IF d < 0 THEN -d ELSE d
        k == IF n = 0 \/ m = 0 THEN 0 ELSE RoundSearch(0, ScoreScale, m, n)
    IN  IF d < 0 THEN -k ELSE k

\* a strict comparison: sim_matrix[i][j].item() > threshold
AtLeastThresholdStrict(a, b) ==
    LET d == Dot(a, b)
        n == Dot(a, a) * Dot(b, b)
    IN  /\ n > 0
        /\ d >= 0
        /\ ThresholdDen * ThresholdDen * d * d > ThresholdNum * ThresholdNum * n

\* sim_matrix[i][j].item() >= threshold
AtLeastThreshold(a, b) ==
    LET d == Dot(a, b)
        n == Dot(a, a) * Dot(b, b)
    IN  /\ n > 0
        /\ d >= 0
        /\ ThresholdDen * ThresholdDen * d * d >= ThresholdNum * ThresholdNum * n

\* similarity of the two mean embeddings, as the score of a match
Score(target_interests, other_interests) ==
    RoundedCos(SumEmbeddings(target_interests), SumEmbeddings(other_interests))

(***************************************************************************)
(* find_top_3_interest_matches.                                            *)
(***************************************************************************)
\* common_interests.add(other_interest): a set keeps one copy
SetAdd(common, x) == IF BagIn(x, common) THEN common ELSE common (+) SetToBag({x})

\* the two nested loops over (i, j), as one loop over k = (i-1)*len(other) + j
RECURSIVE CommonLoop(_, _, _, _)
CommonLoop(target_interests, other_interests, k, common) ==
    IF k > Len(target_interests) * Len(other_interests) THEN common
    ELSE LET i == ((k - 1) \div Len(other_interests)) + 1
             j == ((k - 1) % Len(other_interests)) + 1
             hit == AtLeastThreshold(Encode(target_interests[i]),
                                     Encode(other_interests[j]))
         IN  CommonLoop(target_interests, other_interests, k + 1,
                        IF hit THEN SetAdd(common, other_interests[j]) ELSE common)

\* the bag of strings in list(common_interests); the order of that list is not modelled
CommonInterests(target_interests, other_interests) ==
    CommonLoop(target_interests, other_interests, 1, EmptyBag)

\* the dict appended to matches
MatchEntry(user, target_interests, common) ==
    [user_id |-> user["id"],
     name |-> user["full_name"],
     email |-> Get(user, "email", JStr("N/A")),
     job_title |-> Get(user, "job_title", JStr("N/A")),
     company |-> Get(user, "company", JStr("N/A")),
     score |-> Score(target_interests, Get(user, "interests", JList(<<>>)).l),
     interests |-> common]

\* user["id"] == user_id
IsTarget(user, user_id) == user["id"] = JStr(user_id)

\* the body of "for user in users", from record k on
RECURSIVE MatchLoop(_, _, _, _, _)
MatchLoop(users, user_id, target_interests, k, matches) ==
    IF k > Len(users) THEN matches
    ELSE LET user == users[k]
             other_interests == Get(user, "interests", JList(<<>>))
             common == CommonInterests(target_interests, other_interests.l)
             skip == \/ IsTarget(user, user_id)
                     \/ ~Truthy(other_interests)
                     \/ common = EmptyBag
         IN  MatchLoop(users, user_id, target_interests, k + 1,
                       IF skip THEN matches
                       ELSE Append(matches, MatchEntry(user, target_interests, common)))

\* the insertion of an ascending sort (reverse=True forgotten)
RECURSIVE InsertAsc(_, _)
InsertAsc(sorted, e) ==
    IF sorted = <<>> THEN <<e>>
    ELSE IF Head(sorted).score <= e.score
         THEN <<Head(sorted)>> \o InsertAsc(Tail(sorted), e)
         ELSE <<e>> \o sorted

\* where sorted(..., reverse=True) puts e among entries already in order: after
\* every entry whose score is not smaller (the sort is stable)
RECURSIVE InsertDesc(_, _)
InsertDesc(sorted, e) ==
    IF sorted = <<>> THEN <<e>>
    ELSE IF Head(sorted).score >= e.score
         THEN <<Head(sorted)>> \o InsertDesc(Tail(sorted), e)
         ELSE <<e>> \o sorted

\* no sort at all: the matches in file order
Unsorted(matches) == matches

\* sorted(matches, key=lambda x: x["score"], reverse=True)
RECURSIVE SortedDesc(_)
SortedDesc(matches) ==
    IF matches = <<>> THEN <<>>
    ELSE InsertDesc(SortedDesc(SubSeq(matches, 1, Len(matches) - 1)),
                    matches[Len(matches)])

\* a slice one too long, [:4]
TopOneMore(matches) ==
    SubSeq(matches, 1, IF Len(matches) < TopN + 1 THEN Len(matches) ELSE TopN + 1)

\* the slice [:3]
Top(matches) == SubSeq(matches, 1, IF Len(matches) < TopN THEN Len(matches) ELSE TopN)

Return(value) == [kind |-> "return", exc |-> "", detail |-> "", value |-> value]
Raise(exc, detail) == [kind |-> "raise", exc |-> exc, detail |-> detail, value |-> <<>>]
NoCall == [kind |-> "none", exc |-> "", detail |-> "", value |-> <<>>]

\* the indices of the records whose id is user_id
WithId(users, user_id) == {i \in 1..Len(users) : IsTarget(users[i], user_id)}

\* next((u for u in users if u["id"] == user_id), None), as an index
FirstWithId(users, user_id) ==
    CHOOSE i \in WithId(users, user_id) : \A j \in WithId(users, user_id) : i <= j

\* the check left out: a target without interests is matched like any other
NoInterestsUnchecked(target_interests) == FALSE

\* "if not target_interests"
NoInterests(target_interests) == ~Truthy(target_interests)

\* the outcome of find_top_3_interest_matches(user_id) on the file st
find_top_3_interest_matches(st, user_id) ==
    IF st.state = "missing" THEN Raise("FileNotFoundError", "")
    ELSE IF st.state = "invalid" THEN Raise("JSONDecodeError", "")
    ELSE IF WithId(st.users, user_id) = {} THEN Raise("ValueError", "not found")
    ELSE LET target_user == st.users[FirstWithId(st.users, user_id)]
             target_interests == Get(target_user, "interests", JList(<<>>))
         IN  IF NoInterests(target_interests) THEN Raise("ValueError", "no interests")
             ELSE Return(Top(SortedDesc(
                      MatchLoop(st.users, user_id, target_interests.l, 1, <<>>))))

\* isinstance(e, cls) for the exceptions the handlers tell apart
IsInstance(exc, cls) ==
    \/ exc = cls
    \/ cls = "Exception"
    \/ (exc = "JSONDecodeError" /\ cls = "ValueError")
    \/ (exc = "FileNotFoundError" /\ cls = "OSError")

(***************************************************************************)
(* users.json and the records the model draws its contents from.           *)
(***************************************************************************)
User(id, full_name, rest) == ("id" :> JStr(id)) @@ ("full_name" :> JStr(full_name)) @@ rest

\* the default target, every field present
Ann ==
    User("user_001", "Ann",
         ("email" :> JStr("ann@x.io")) @@ ("job_title" :> JStr("Engineer")) @@
         ("company" :> JStr("Acme")) @@ ("interests" :> JList(<<"chess", "hiking">>)))

\* a record with the default target's id and no interests key
Ann0 == User("user_001", "Ann B", ("email" :> JStr("annb@x.io")))

\* no email key, a repeated interest, one interest exactly at the threshold
Bob ==
    User("user_002", "Bob",
         ("job_title" :> JStr("Designer")) @@
         ("interests" :> JList(<<"board games", "chess", "chess">>)))

\* email and company null
Cy ==
    User("user_003", "Cy",
         ("email" :> JNull) @@ ("job_title" :> JStr("Guide")) @@ ("company" :> JNull) @@
         ("interests" :> JList(<<"trekking", "hiking">>)))

\* an empty interests list
Bob0 == User("user_002", "Bob B", ("company" :> JStr("Initech")) @@ ("interests" :> JList(<<>>)))

\* the records a file handed to the matcher is made of
Records == {Ann, Ann0, Bob, Cy, Bob0}

\* the records a file served by the handlers starts from
ServedRecords == {Ann, Ann0, Bob}

\* the user_id arguments the matcher is called with
UserIds == {"user_001", "user_002"}

\* the ids PUT /users/{user_id} is called with
PutIds == {"user_001", "user_002", "user_404"}

\* the request bodies of PUT /users/{user_id}: the fields set, with their values
Bodies ==
    {EmptyDict,
     ("email" :> JNull),
     ("interests" :> JList(<<>>)),
     ("full_name" :> JStr("Zed")) @@ ("interests" :> JList(<<"trekking">>))}

RECURSIVE SeqsUpTo(_, _)
SeqsUpTo(S, n) ==
    IF n = 0 THEN {<<>>}
    ELSE LET shorter == SeqsUpTo(S, n - 1)
         IN  shorter \cup {Append(q, x) : q \in {r \in shorter : Len(r) = n - 1}, x \in S}

File(state, users) == [state |-> state, users |-> users]

\* users.json: missing, not JSON, or a list of at most n records
Files(S, n) ==
    {File("missing", <<>>), File("invalid", <<>>)}
        \cup {File("ok", users) : users \in SeqsUpTo(S, n)}

NoRequest == [op |-> "none", id |-> "", body |-> EmptyDict]
Request(op, id, body) == [op |-> op, id |-> id, body |-> body]

NoResponse == [status |-> 0, detail |-> "", users |-> <<>>, matches |-> <<>>]
Response(status, detail, users, matches) ==
    [status |-> status, detail |-> detail, users |-> users, matches |-> matches]
\* raise HTTPException(status_code, detail)
HTTPException(status, detail) == Response(status, detail, <<>>, <<>>)

(***************************************************************************)
(* The record store.                                                       *)
(***************************************************************************)
\* load_users(): the list read, or the HTTPException raised
load_users(st) ==
    IF st.state = "missing" THEN Raise("HTTPException", "404")
    ELSE IF st.state = "invalid" THEN Raise("HTTPException", "500")
    ELSE Return(st.users)

\* the status code of the HTTPException load_users raised
LoadStatus(loaded) == IF loaded.detail = "404" THEN 404 ELSE 500

\* save_users(users): the file after the call; when the file cannot be opened
\* for writing, nothing is written and the caller gets HTTPException(500)
save_users(st, users, writable) == IF writable THEN File("ok", users) ELSE st

(***************************************************************************)
(* The handlers.                                                           *)
(***************************************************************************)
\* GET /
root ==
    /\ req' = Request("root", "", EmptyDict)
    /\ resp' = Response(200, "running", <<>>, <<>>)
    /\ out' = NoCall
    /\ UNCHANGED <<store, modelLoads>>

\* every exception answered by the generic handler: "except ValueError" left out
MatchResponseAll500(outcome) ==
    IF outcome.kind = "return" THEN Response(200, "user_001", <<>>, outcome.value)
    ELSE HTTPException(500, outcome.detail)

\* the response get_matches makes of the matcher's outcome
MatchResponse(outcome) ==
    IF outcome.kind = "return" THEN Response(200, "user_001", <<>>, outcome.value)
    ELSE IF IsInstance(outcome.exc, "ValueError") THEN HTTPException(404, outcome.detail)
    ELSE HTTPException(500, outcome.detail)

\* GET /match
get_matches ==
    /\ modelLoads < MaxLoads
    /\ modelLoads' = modelLoads + 1
    /\ req' = Request("match", "user_001", EmptyDict)
    /\ out' = find_top_3_interest_matches(store, "user_001")
    /\ resp' = MatchResponse(out')
    /\ UNCHANGED store

\* GET /users
get_all_users ==
    /\ req' = Request("users", "", EmptyDict)
    /\ LET loaded == load_users(store)
       IN  resp' = IF loaded.kind = "raise" THEN HTTPException(LoadStatus(loaded), "")
                   ELSE Response(200, "", loaded.value, <<>>)
    /\ out' = NoCall
    /\ UNCHANGED <<store, modelLoads>>

\* GET /user
get_user_001 ==
    /\ req' = Request("user", "user_001", EmptyDict)
    /\ LET loaded == load_users(store)
       IN  resp' = IF loaded.kind = "raise" THEN HTTPException(LoadStatus(loaded), "")
                   ELSE IF WithId(loaded.value, "user_001") = {}
                        THEN HTTPException(404, "not found")
                   ELSE Response(200, "",
                                 <<loaded.value[FirstWithId(loaded.value, "user_001")]>>, <<>>)
    /\ out' = NoCall
    /\ UNCHANGED <<store, modelLoads>>

\* the merge the wrong way round, {**user_update.dict(exclude_unset=True), **user}
UpdatedUserStoredWins(user, body) == Merge(body, user)

\* {**user, **user_update.dict(exclude_unset=True)}
UpdatedUser(user, body) == Merge(user, body)

\* PUT /users/{user_id} with the fields of body set
update_user(user_id, body, writable) ==
    /\ req' = Request("put", user_id, body)
    /\ LET loaded == load_users(store)
       IN  IF loaded.kind = "raise"
           THEN /\ resp' = HTTPException(LoadStatus(loaded), "")
                /\ store' = store
           ELSE IF WithId(loaded.value, user_id) = {}
           THEN /\ resp' = HTTPException(404, "not found")
                /\ store' = store
           ELSE LET i == FirstWithId(loaded.value, user_id)
                    updated_user == UpdatedUser(loaded.value[i], body)
                    users == [loaded.value EXCEPT ![i] = updated_user]
                IN  /\ store' = save_users(store, users, writable)
                    /\ resp' = IF writable
                               THEN Response(200, "User updated", <<updated_user>>, <<>>)
                               ELSE HTTPException(500, "Failed to write users file")
    /\ out' = NoCall
    /\ UNCHANGED modelLoads

Init ==
    /\ store \in Files(ServedRecords, MaxUsers)
    /\ req = NoRequest
    /\ out = NoCall
    /\ resp = NoResponse
    /\ modelLoads = 0

Next ==
    \/ root
    \/ get_matches
    \/ get_all_users
    \/ get_user_001
    \/ \E user_id \in PutIds, body \in Bodies, writable \in BOOLEAN :
           update_user(user_id, body, writable)

Spec == Init /\ [][Next]_vars

(***************************************************************************)
(* The matcher alone: one call on a file of up to MaxRecords records.      *)
(***************************************************************************)
MatcherCall(user_id) ==
    /\ req.op = "none"
    /\ req' = Request("call", user_id, EmptyDict)
    /\ modelLoads' = modelLoads + 1
    /\ out' = find_top_3_interest_matches(store, user_id)
    /\ UNCHANGED <<store, resp>>

InitMatcher ==
    /\ store \in Files(Records, MaxRecords)
    /\ req = NoRequest
    /\ out = NoCall
    /\ resp = NoResponse
    /\ modelLoads = 0

NextMatcher == \E user_id \in UserIds : MatcherCall(user_id)

SpecMatcher == InitMatcher /\ [][NextMatcher]_vars

(***************************************************************************)
(* What the properties below are stated with.  None of it is used by the   *)
(* actions above: the properties say what the matcher should have          *)
(* computed, in the words of the specification.                            *)
(***************************************************************************)
Elems(l) == {l[i] : i \in 1..Len(l)}

\* the interests of a record as a list: none when the key is absent or null
InterestsOf(user) == IF "interests" \in DOMAIN user THEN user["interests"].l ELSE <<>>

\* cosine(a, b) >= 0.6, inclusive: 5 * (a . b) >= 3 * |a| * |b|
Similar(a, b) ==
    LET va == Encode(a)
        vb == Encode(b)
    IN  /\ Dot(va, vb) >= 0
        /\ 25 * Dot(va, vb) * Dot(va, vb) >= 9 * Dot(va, va) * Dot(vb, vb)

\* the overlap set: the other side's interests similar to some target interest
Overlap(target_interests, other_interests) ==
    {b \in Elems(other_interests) : \E a \in Elems(target_interests) : Similar(a, b)}

HasTarget == \E i \in 1..Len(store.users) : store.users[i]["id"].s = req.id

\* the record the request is about: the first one carrying the requested id
TargetRecord ==
    LET i == CHOOSE i \in 1..Len(store.users) :
                 /\ store.users[i]["id"].s = req.id
                 /\ \A j \in 1..(i - 1) : store.users[j]["id"].s # req.id
    IN  store.users[i]

\* the other records with non-empty interests and a non-empty overlap set
Eligible ==
    {i \in 1..Len(store.users) :
        /\ store.users[i]["id"].s # req.id
        /\ Overlap(InterestsOf(TargetRecord), InterestsOf(store.users[i])) # {}}

ScoreOf(i) == Score(InterestsOf(TargetRecord), InterestsOf(store.users[i]))

\* the matcher was called on a readable file holding a target with interests
Matchable ==
    /\ req.op \in {"call", "match"}
    /\ store.state = "ok"
    /\ HasTarget
    /\ InterestsOf(TargetRecord) # <<>>

Min(a, b) == IF a < b THEN a ELSE b

(***************************************************************************)
(* C1.  Whenever the file holds the target and the target has interests,   *)
(* the matcher returns at most 3 entries and none of them carries the      *)
(* target's id, also when several records carry that id.                   *)
(***************************************************************************)
C1_AtMostThreeNeverSelf ==
    Matchable =>
        /\ out.kind = "return"
        /\ Len(out.value) <= 3
        /\ \A p \in 1..Len(out.value) : out.value[p].user_id.s # req.id

\* three entries returned from a file with two records carrying the target's
\* id, the second of which has interests similar to the target's
C1_Witness ==
    /\ Matchable
    /\ out.kind = "return"
    /\ Len(out.value) = 3
    /\ \E i, j \in 1..Len(store.users) :
           /\ i < j
           /\ store.users[i]["id"].s = req.id
           /\ store.users[j]["id"].s = req.id
           /\ Overlap(InterestsOf(TargetRecord), InterestsOf(store.users[j])) # {}

(***************************************************************************)
(* C2.  The matcher returns exactly the best min(3, E) eligible            *)
(* candidates: the entries are those of distinct eligible records, every   *)
(* eligible record left out scores no more than every returned one, there  *)
(* is no padding, and with E = 0 the call returns the empty sequence.      *)
(***************************************************************************)
C2_BestEligibleReturned ==
    Matchable =>
        /\ out.kind = "return"
        /\ Len(out.value) = Min(3, Cardinality(Eligible))
        /\ \E f \in [1..Len(out.value) -> Eligible] :
               /\ \A p, q \in 1..Len(out.value) : p # q => f[p] # f[q]
               /\ \A p \in 1..Len(out.value) :
                      /\ out.value[p].user_id = store.users[f[p]]["id"]
                      /\ out.value[p].score = ScoreOf(f[p])
               /\ \A e \in Eligible \ {f[p] : p \in 1..Len(out.value)} :
                      \A p \in 1..Len(out.value) : ScoreOf(e) <= out.value[p].score

\* more than three eligible records, the first of them the worst: it is left out
C2_Witness ==
    /\ Matchable
    /\ out.kind = "return"
    /\ Cardinality(Eligible) > 3
    /\ \E e \in Eligible :
           /\ \A i \in Eligible : e <= i
           /\ \A p \in 1..Len(out.value) : ScoreOf(e) < out.value[p].score

(***************************************************************************)
(* C3.  Scores never increase along a returned sequence.                   *)
(***************************************************************************)
C3_ScoresNonIncreasing ==
    out.kind = "return" =>
        \A p, q \in 1..Len(out.value) : p < q => out.value[p].score >= out.value[q].score

\* the file lists a worse eligible record before a better one, and both are returned
C3_Witness ==
    /\ Matchable
    /\ out.kind = "return"
    /\ Len(out.value) >= 2
    /\ Cardinality(Eligible) <= 3
    /\ \E i, j \in Eligible : i < j /\ ScoreOf(i) < ScoreOf(j)

(***************************************************************************)
(* C4.  The interests of a returned entry are non-empty, come from the     *)
(* matched record's interests and are exactly its overlap set with the     *)
(* target (threshold inclusive), each string once.                         *)
(***************************************************************************)
C4_InterestsAreTheOverlap ==
    out.kind = "return" =>
        \A p \in 1..Len(out.value) :
            /\ BagToSet(out.value[p].interests) # {}
            /\ \A x \in BagToSet(out.value[p].interests) :
                   CopiesIn(x, out.value[p].interests) = 1
            /\ \E i \in Eligible :
                   /\ out.value[p].user_id = store.users[i]["id"]
                   /\ BagToSet(out.value[p].interests) \subseteq Elems(InterestsOf(store.users[i]))
                   /\ BagToSet(out.value[p].interests)
                          = Overlap(InterestsOf(TargetRecord), InterestsOf(store.users[i]))

\* an entry holding "board games", which is exactly at the threshold, and
\* "chess", which the matched record lists twice
C4_Witness ==
    /\ out.kind = "return"
    /\ \E p \in 1..Len(out.value) :
           /\ BagToSet(out.value[p].interests) = {"board games", "chess"}
           /\ \E i \in Eligible :
                  /\ out.value[p].user_id = store.users[i]["id"]
                  /\ InterestsOf(store.users[i]) = <<"board games", "chess", "chess">>

(***************************************************************************)
(* C5.  When no record carries the target id, the matcher raises the       *)
(* not-found ValueError, returns nothing, and GET /match answers 404.      *)
(***************************************************************************)
C5_UnknownTargetIs404 ==
    (req.op = "match" /\ store.state = "ok" /\ ~HasTarget) =>
        /\ out = Raise("ValueError", "not found")
        /\ resp.status = 404
        /\ resp.matches = <<>>

\* GET /match answered 404 on a file of records none of which is user_001
C5_Witness ==
    /\ req.op = "match"
    /\ store.state = "ok"
    /\ Len(store.users) = 2
    /\ ~HasTarget
    /\ resp.status = 404

(***************************************************************************)
(* C6.  When the target record has no interests (an empty list, or no      *)
(* interests key), the matcher raises the no-interests ValueError whatever *)
(* the other records are, returns nothing, and GET /match answers 404.     *)
(***************************************************************************)
C6_TargetWithoutInterestsIs404 ==
    (req.op = "match" /\ store.state = "ok" /\ HasTarget /\ InterestsOf(TargetRecord) = <<>>) =>
        /\ out = Raise("ValueError", "no interests")
        /\ resp.status = 404
        /\ resp.matches = <<>>

\* GET /match answered 404 for a target whose interests a PUT emptied, next
\* to a record that has interests
C6_Witness ==
    /\ req.op = "match"
    /\ store.state = "ok"
    /\ HasTarget
    /\ "interests" \in DOMAIN TargetRecord
    /\ TargetRecord["interests"] = JList(<<>>)
    /\ \E i \in 1..Len(store.users) : InterestsOf(store.users[i]) # <<>>
    /\ resp.status = 404

(***************************************************************************)
(* C7.  When users.json is missing or is not JSON, GET /match, GET /users, *)
(* GET /user and PUT /users/{id} answer with a 5xx status, never a 4xx.    *)
(***************************************************************************)
C7_StoreFailureIsServerError ==
    (store.state # "ok" /\ req.op \in {"match", "users", "user", "put"}) =>
        resp.status >= 500

(***************************************************************************)
(* C8.  A PUT changes the file only like this: on an existing id, the      *)
(* first record with that id gets exactly the fields the request set, and  *)
(* keeps its id and its other fields; every other record, the number of    *)
(* records and their order stay; on an unknown id the answer is 404 and    *)
(* the file is not written.                                                *)
(***************************************************************************)
PutFrame ==
    LET body == req'.body
        known == store.state = "ok" /\
                 \E i \in 1..Len(store.users) : store.users[i]["id"].s = req'.id
    IN  IF ~known
        THEN /\ store' = store
             /\ store.state = "ok" => resp'.status = 404
        ELSE LET i == CHOOSE i \in 1..Len(store.users) :
                          /\ store.users[i]["id"].s = req'.id
                          /\ \A j \in 1..(i - 1) : store.users[j]["id"].s # req'.id
                 old == store.users[i]
                 new == store'.users[i]
             IN  \/ resp'.status = 500 /\ store' = store
                 \/ /\ resp'.status = 200
                    /\ store'.state = "ok"
                    /\ Len(store'.users) = Len(store.users)
                    /\ \A j \in 1..Len(store.users) : j # i => store'.users[j] = store.users[j]
                    /\ DOMAIN new = (DOMAIN old) \cup (DOMAIN body)
                    /\ \A k \in DOMAIN body : new[k] = body[k]
                    /\ \A k \in (DOMAIN old) \ (DOMAIN body) : new[k] = old[k]
                    /\ new["id"] = old["id"]
                    /\ DOMAIN body \subseteq UserUpdate

C8_PutChangesOnlyTheSetFields == [][req'.op = "put" => PutFrame]_vars

\* a PUT that renamed the second of two records, whose interests differed
\* from the ones the request set
C8_Witness ==
    /\ req.op = "put"
    /\ resp.status = 200
    /\ DOMAIN req.body = {"full_name", "interests"}
    /\ Len(store.users) = 2
    /\ store.users[2]["id"].s = req.id
    /\ store.users[2]["full_name"] = JStr("Zed")
    /\ "job_title" \in DOMAIN store.users[2]
    /\ store.users[1] \in ServedRecords

(***************************************************************************)
(* C9.  A returned entry copies user_id and name from the matched record,  *)
(* and email, job_title and company too, with "N/A" where the record has   *)
(* no such key or has null for it; no field of an entry is null.           *)
(***************************************************************************)
OrNA(user, key) ==
    IF key \in DOMAIN user /\ user[key] # JNull THEN user[key] ELSE JStr("N/A")

C9_FieldsCopiedOrNA ==
    out.kind = "return" =>
        \A p \in 1..Len(out.value) :
            /\ \E i \in Eligible :
                   /\ out.value[p].user_id = store.users[i]["id"]
                   /\ out.value[p].name = store.users[i]["full_name"]
                   /\ out.value[p].email = OrNA(store.users[i], "email")
                   /\ out.value[p].job_title = OrNA(store.users[i], "job_title")
                   /\ out.value[p].company = OrNA(store.users[i], "company")
            /\ JNull \notin {out.value[p].user_id, out.value[p].name, out.value[p].email,
                             out.value[p].job_title, out.value[p].company}

(***************************************************************************)
(* C10.  However many match requests a process serves, the embedding model *)
(* is loaded at most once.                                                 *)
(***************************************************************************)
C10_ModelLoadedAtMostOnce == modelLoads <= 1

====
